---- MODULE Spec2Model ----
(***************************************************************************)
(* A model of the pomodoro timer of Tiim/pomo: the session state machine   *)
(* (Pomodoro) and its builder (PomodoroSetting) of src/src/pomo.rs.        *)
(*                                                                         *)
(* Instants and durations are integers, counted in the smallest unit of    *)
(* chrono's Duration (the "tick").  Indices of sections are 0-based as in  *)
(* the source; the section with index i is sections[i + 1].                *)
(***************************************************************************)
EXTENDS Integers, Sequences, FiniteSets, TLC

VARIABLES setting, pomo, pc, op, old, ret

vars == <<setting, pomo, pc, op, old, ret>>

----------------------------------------------------------------------------
(* Bounds of the model                                                     *)

\* the start instant of the sessions of Spec
T0 == 1
\* instants handed to the operations of Spec are 0 .. MaxTime
MaxTime == 5
\* repetitions of the settings of Spec are 0 .. MaxRepetitions
MaxRepetitions == 2
\* work_time and break_time of the settings of Spec are 0 .. MaxDur
MaxDur == 2
\* set_unpause is not called once the session has more sections than this
MaxSections == 3

Times == 0 .. MaxTime

----------------------------------------------------------------------------
(* Values                                                                  *)

\* Option<DateTime<Utc>>: None is the empty sequence, Some(t) is <<t>>
None == << >>
Some(t) == << t >>

\* enum PomodoroState
PomodoroState == {"NotStarted", "Work", "Break", "Done"}

\* struct PomodoroSection
PomodoroSection(duration, state) == [duration |-> duration, state |-> state]

\* enum CurrentSection
Inactive == [tag |-> "Inactive"]
BeforeStart == [tag |-> "BeforeStart"]
Section(i) == [tag |-> "Section", i |-> i]
AferEnd == [tag |-> "AferEnd"]

\* struct CurrentPomoState
CurrentPomoState(current_state, next_state, duration, completed, total, pause) ==
    [current_state |-> current_state,
     next_state |-> next_state,
     duration |-> duration,
     completed_repetitions |-> completed,
     total_repetitions |-> total,
     pause |-> pause]

----------------------------------------------------------------------------
(* Iterator chains over the sections                                       *)

\* sections.iter().take(n).map(|s| s.duration).reduce(|a, v| a + v)
\*     .unwrap_or(Duration::zero())
RECURSIVE SumDurations(_, _)
SumDurations(sections, n) ==
    IF n <= 0 \/ Len(sections) = 0 THEN 0
    ELSE LET k == IF n < Len(sections) THEN n ELSE Len(sections)
         IN SumDurations(sections, k - 1) + sections[k].duration

\* sections.iter().take(n).filter(|s| s.state == PomodoroState::Work).count()
RECURSIVE CountWork(_, _)
CountWork(sections, n) ==
    IF n <= 0 \/ Len(sections) = 0 THEN 0
    ELSE LET k == IF n < Len(sections) THEN n ELSE Len(sections)
         IN CountWork(sections, k - 1)
                + (IF sections[k].state = "Work" THEN 1 ELSE 0)

\* Vec::insert(index, element)
Insert(v, index, element) ==
    SubSeq(v, 1, index) \o << element >> \o SubSeq(v, index + 1, Len(v))

----------------------------------------------------------------------------
(* impl Pomodoro                                                           *)

\* pub fn repetitions(&self) -> u32
repetitions(self) == CountWork(self.sections, Len(self.sections))

\* pub fn end(&self) -> DateTime<Utc>
end(self) == self.start + SumDurations(self.sections, Len(self.sections))

\* self.start + self.sections.iter().take(i).map(|s| s.duration)
\*     .reduce(|a, v| a + v).unwrap_or(Duration::zero())
SectionStartTime(self, i) == self.start + SumDurations(self.sections, i)

\* the instant the queries look at: the pause marker when there is one
EffectiveTime(self, t) ==
    IF self.pause_started # None THEN self.pause_started[1] ELSE t

\* SectionMatches with the fault of taking the start of a section as inside it
SectionMatchesInclusive(s, start, current_time) ==
    start <= current_time /\ start + s.duration > current_time

\* the body of the for loop of current_section, for section i, where start
\* is the accumulated start of section i
SectionMatches(s, start, current_time) ==
    start < current_time /\ start + s.duration > current_time

\* for (i, s) in self.sections.iter().enumerate() { ... } return AferEnd
RECURSIVE ScanSections(_, _, _, _)
ScanSections(sections, i, start, current_time) ==
    IF i >= Len(sections) THEN AferEnd
    ELSE IF SectionMatches(sections[i + 1], start, current_time)
         THEN Section(i)
         ELSE ScanSections(sections, i + 1,
                           start + sections[i + 1].duration, current_time)

\* current_section with the fault of not looking at the active flag
current_section_ignores_active(self, t) ==
    LET current_time == EffectiveTime(self, t)
    IN IF self.start > current_time THEN BeforeStart
       ELSE ScanSections(self.sections, 0, self.start, current_time)

\* pub fn current_section(&self, t: DateTime<Utc>) -> CurrentSection
current_section(self, t) ==
    IF ~self.active THEN Inactive
    ELSE LET current_time == EffectiveTime(self, t)
         IN IF self.start > current_time THEN BeforeStart
            ELSE ScanSections(self.sections, 0, self.start, current_time)

\* StateInSection with the fault of counting the Work sections before section
\* i only
StateInSectionExclusive(self, i, time, pause) ==
    CurrentPomoState(
        self.sections[i + 1].state,
        IF i + 1 < Len(self.sections) THEN self.sections[i + 2].state ELSE "Done",
        (SectionStartTime(self, i) + self.sections[i + 1].duration) - time,
        CountWork(self.sections, i),
        repetitions(self),
        pause)

\* StateInSection with the fault of reporting the time elapsed in section i
\* for the time left in it
StateInSectionElapsed(self, i, time, pause) ==
    CurrentPomoState(
        self.sections[i + 1].state,
        IF i + 1 < Len(self.sections) THEN self.sections[i + 2].state ELSE "Done",
        time - SectionStartTime(self, i),
        CountWork(self.sections, i + 1),
        repetitions(self),
        pause)

\* the arm of state for CurrentSection::Section(i)
StateInSection(self, i, time, pause) ==
    LET current == self.sections[i + 1]
        start_time == SectionStartTime(self, i)
        completed == CountWork(self.sections, i + 1)
    IN CurrentPomoState(
           current.state,
           IF i + 1 < Len(self.sections)
               THEN self.sections[i + 2].state ELSE "Done",
           (start_time + current.duration) - time,
           completed,
           repetitions(self),
           pause)

\* state with the fault of measuring from t although the session is paused
state_ignores_pause(self, t) ==
    LET pause == self.pause_started # None
        section == current_section(self, t)
    IN CASE section.tag = "Inactive" ->
                CurrentPomoState("Done", "Done", 0, 0, 0, pause)
         [] section.tag = "BeforeStart" ->
                CurrentPomoState(
                    "NotStarted",
                    IF Len(self.sections) > 0
                        THEN self.sections[1].state ELSE "Done",
                    self.start - t, 0, repetitions(self), pause)
         [] section.tag = "Section" ->
                StateInSection(self, section.i, t, pause)
         [] section.tag = "AferEnd" ->
                CurrentPomoState("Done", "Done", 0,
                                 repetitions(self), repetitions(self), pause)

\* pub fn state(&self, t: DateTime<Utc>) -> CurrentPomoState
state(self, t) ==
    LET time == EffectiveTime(self, t)
        pause == self.pause_started # None
        section == current_section(self, t)
    IN CASE section.tag = "Inactive" ->
                CurrentPomoState("Done", "Done", 0, 0, 0, pause)
         [] section.tag = "BeforeStart" ->
                CurrentPomoState(
                    "NotStarted",
                    IF Len(self.sections) > 0
                        THEN self.sections[1].state ELSE "Done",
                    self.start - time,
                    0,
                    repetitions(self),
                    pause)
         [] section.tag = "Section" ->
                StateInSection(self, section.i, time, pause)
         [] section.tag = "AferEnd" ->
                CurrentPomoState("Done", "Done", 0,
                                 repetitions(self), repetitions(self), pause)

\* set_active with the fault of clearing the pause marker as well
set_active_clears_pause(self, a) ==
    [self EXCEPT !.active = a, !.pause_started = None]

\* pub fn set_active(&mut self, a: bool)
set_active(self, a) == [self EXCEPT !.active = a]

\* pub fn set_pause(&mut self, pause_start: DateTime<Utc>)
set_pause(self, pause_start) == [self EXCEPT !.pause_started = Some(pause_start)]

\* Splice with the fault of leaving the second remainder the whole original
\* duration
SpliceKeepsOldDuration(sections, s, section_start_time, pause_start, pause_end) ==
    LET new_section_dur == pause_start - section_start_time
        shortened == [sections EXCEPT ![s + 1].duration = new_section_dur]
        with_break == Insert(shortened, s + 1,
                             PomodoroSection(pause_end - pause_start, "Break"))
    IN Insert(with_break, s + 2,
              PomodoroSection(sections[s + 1].duration, sections[s + 1].state))

\* Splice with the fault of inserting the second remainder at s + 1 too, in
\* front of the Break
SpliceSwapsInserted(sections, s, section_start_time, pause_start, pause_end) ==
    LET new_section_dur == pause_start - section_start_time
        shortened == [sections EXCEPT ![s + 1].duration = new_section_dur]
        with_break == Insert(shortened, s + 1,
                             PomodoroSection(pause_end - pause_start, "Break"))
    IN Insert(with_break, s + 1,
              PomodoroSection(sections[s + 1].duration - new_section_dur,
                              sections[s + 1].state))

\* the three sections that replace section s when the pause that began at
\* pause_start ends at pause_end
Splice(sections, s, section_start_time, pause_start, pause_end) ==
    LET new_section_dur == pause_start - section_start_time
        split_section_old_dur == sections[s + 1].duration
        split_section_state == sections[s + 1].state
        shortened == [sections EXCEPT ![s + 1].duration = new_section_dur]
        with_break == Insert(shortened, s + 1,
                             PomodoroSection(pause_end - pause_start, "Break"))
    IN Insert(with_break, s + 2,
              PomodoroSection(split_section_old_dur - new_section_dur,
                              split_section_state))

\* assert!(new_section_dur > Duration::zero()) of set_unpause: TRUE when the
\* call gets past the assertion (or does not reach it)
UnpauseAssertion(self) ==
    IF self.pause_started = None THEN TRUE
    ELSE LET pause_start == self.pause_started[1]
             sec == current_section(self, pause_start)
         IN IF sec.tag # "Section" THEN TRUE
            ELSE pause_start - SectionStartTime(self, sec.i) > 0

\* set_unpause with the fault of clearing the pause marker only after a splice
set_unpause_keeps_marker(self, pause_end) ==
    IF self.pause_started = None THEN self
    ELSE LET pause_start == self.pause_started[1]
             sec == current_section(self, pause_start)
         IN IF sec.tag = "Section"
            THEN [self EXCEPT
                    !.sections = Splice(self.sections, sec.i,
                                        SectionStartTime(self, sec.i),
                                        pause_start, pause_end),
                    !.pause_started = None]
            ELSE self

\* pub fn set_unpause(&mut self, pause_end: DateTime<Utc>)
set_unpause(self, pause_end) ==
    IF self.pause_started = None THEN self
    ELSE LET pause_start == self.pause_started[1]
             sec == current_section(self, pause_start)
         IN IF sec.tag = "Section"
            THEN LET s == sec.i
                     section_start_time == SectionStartTime(self, s)
                 IN [self EXCEPT
                       !.sections = Splice(self.sections, s, section_start_time,
                                           pause_start, pause_end),
                       !.pause_started = None]
            ELSE [self EXCEPT !.pause_started = None]

----------------------------------------------------------------------------
(* impl PomodoroSetting                                                    *)

\* struct PomodoroSetting
PomodoroSetting(start, reps, work_time, break_time) ==
    [start |-> start, repetitions |-> reps,
     work_time |-> work_time, break_time |-> break_time]

\* PushSections with the fault of pushing a Break after the last Work too
RECURSIVE PushSectionsTrailingBreak(_, _, _)
PushSectionsTrailingBreak(self, sections, i) ==
    IF i >= self.repetitions THEN sections
    ELSE PushSectionsTrailingBreak(
             self,
             sections \o << PomodoroSection(self.work_time, "Work"),
                            PomodoroSection(self.break_time, "Break") >>,
             i + 1)

\* for i in 0..self.repetitions { push Work; if i < repetitions - 1 { push Break } }
RECURSIVE PushSections(_, _, _)
PushSections(self, sections, i) ==
    IF i >= self.repetitions THEN sections
    ELSE LET with_work ==
                 Append(sections, PomodoroSection(self.work_time, "Work"))
             with_break ==
                 IF i < self.repetitions - 1
                 THEN Append(with_work,
                             PomodoroSection(self.break_time, "Break"))
                 ELSE with_work
         IN PushSections(self, with_break, i + 1)

\* pub fn to_pomodoro(&self) -> Pomodoro
to_pomodoro(self) ==
    [sections |-> PushSections(self, << >>, 0),
     start |-> self.start,
     active |-> TRUE,
     pause_started |-> None]

----------------------------------------------------------------------------
(* chrono::Duration, as pomo.rs uses it: secs whole seconds and nanos ticks *)
(* (0 <= nanos < NanosPerSec), here held as one count of ticks             *)

\* ticks in a second (chrono's NANOS_PER_SEC, scaled down)
NanosPerSec == 2

\* Duration::minutes(m)
Minutes(m) == m * 60 * NanosPerSec

\* Rust's integer division, which truncates towards zero (rhs > 0)
TruncDiv(a, rhs) == IF a >= 0 THEN a \div rhs ELSE -((-a) \div rhs)

\* Duration / i32: the seconds are divided, the remainder of the seconds is
\* carried into the ticks, and the ticks are divided; each division truncates
DurationDiv(d, rhs) ==
    LET self_secs == d \div NanosPerSec
        self_nanos == d % NanosPerSec
        secs == TruncDiv(self_secs, rhs)
        carry == self_secs - secs * rhs
        extra_nanos == TruncDiv(carry * NanosPerSec, rhs)
        nanos == TruncDiv(self_nanos, rhs) + extra_nanos
    IN secs * NanosPerSec + nanos

\* Duration * i32
DurationMul(d, rhs) == d * rhs

\* Duration::num_seconds: the whole seconds, truncated towards zero
num_seconds(d) == TruncDiv(d, NanosPerSec)

\* i64::abs
Abs(x) == IF x < 0 THEN -x ELSE x

----------------------------------------------------------------------------
(* PomodoroSetting::from_string: a string is the sequence of its characters *)

Digits == {"0", "1", "2", "3", "4", "5", "6", "7", "8", "9"}

\* the value of a digit
DigitValue(c) ==
    CASE c = "0" -> 0 [] c = "1" -> 1 [] c = "2" -> 2 [] c = "3" -> 3
      [] c = "4" -> 4 [] c = "5" -> 5 [] c = "6" -> 6 [] c = "7" -> 7
      [] c = "8" -> 8 [] c = "9" -> 9

\* (\d+) matched at position i: how many digits follow each other from i on
RECURSIVE DigitRun(_, _)
DigitRun(s, i) ==
    IF i <= Len(s) /\ s[i] \in Digits THEN 1 + DigitRun(s, i + 1) ELSE 0

\* str::parse of the n digits from position i on
RECURSIVE ParseDigits(_, _, _)
ParseDigits(s, i, n) ==
    IF n = 0 THEN 0
    ELSE 10 * ParseDigits(s, i, n - 1) + DigitValue(s[i + n - 1])

\* REPETITIONS_REGEX ^(\d+): the capture, None when there is no match
CaptureRepetitions(s) ==
    IF DigitRun(s, 1) > 0 THEN Some(ParseDigits(s, 1, DigitRun(s, 1))) ELSE None

\* WORK_TIME_REGEX p(\d+): the capture of the leftmost match
CaptureWorkTime(s) ==
    LET at == { i \in 1 .. Len(s) : s[i] = "p" /\ DigitRun(s, i + 1) > 0 }
    IN IF at = {} THEN None
       ELSE LET i == CHOOSE i \in at : \A j \in at : i <= j
            IN Some(ParseDigits(s, i + 1, DigitRun(s, i + 1)))

\* BREAK_TIME_REGEX b(\d+)$: the capture of the leftmost match
CaptureBreakTime(s) ==
    LET at == { i \in 1 .. Len(s) :
                  /\ s[i] = "b"
                  /\ DigitRun(s, i + 1) > 0
                  /\ i + DigitRun(s, i + 1) = Len(s) }
    IN IF at = {} THEN None
       ELSE LET i == CHOOSE i \in at : \A j \in at : i <= j
            IN Some(ParseDigits(s, i + 1, DigitRun(s, i + 1)))

\* pub fn from_string(s: &str, start: DateTime<Utc>) -> PomodoroSetting
from_string(s, start) ==
    LET reps == IF CaptureRepetitions(s) # None
                THEN CaptureRepetitions(s)[1] ELSE 4
        work_time == IF CaptureWorkTime(s) # None
                     THEN CaptureWorkTime(s)[1] ELSE 40
        break_time == IF CaptureBreakTime(s) # None
                      THEN CaptureBreakTime(s)[1] ELSE 10
    IN PomodoroSetting(start, reps, Minutes(work_time), Minutes(break_time))

----------------------------------------------------------------------------
(* PomodoroSetting::adjust_end_to                                          *)

\* the search of adjust_end_to is followed over the candidates 1 .. MaxSearch
MaxSearch == 16

\* f with the fault of taking r breaks for r repetitions
f_full_breaks(self, d, r) ==
    DurationDiv(d, r) - DurationDiv(DurationMul(self.break_time, r), r)

\* let f = |r| (d / r) - (self.break_time * (r - 1)) / r
f(self, d, r) ==
    DurationDiv(d, r) - DurationDiv(DurationMul(self.break_time, r - 1), r)

\* i64::abs((w - self.work_time).num_seconds())
WorkDelta(self, d, reps) == Abs(num_seconds(f(self, d, reps) - self.work_time))

\* new_w_delta > w_delta, where None stands for the initial
\* i64::max_value(), which no i64 exceeds
DeltaGrew(new_w_delta, w_delta) ==
    w_delta # None /\ new_w_delta > w_delta[1]

\* loop { ... }: the value of reps at the break, or 0 when the loop has not
\* reached its break with the candidates 1 .. MaxSearch
RECURSIVE SearchReps(_, _, _, _)
SearchReps(self, d, reps, w_delta) ==
    IF reps > MaxSearch THEN 0
    ELSE IF DeltaGrew(WorkDelta(self, d, reps), w_delta) THEN reps
         ELSE SearchReps(self, d, reps + 1, Some(WorkDelta(self, d, reps)))

\* adjust_end_to with the fault of asserting end_time >= self.start
adjust_end_to_admits_start(self, end_time) ==
    IF ~(end_time >= self.start)
    THEN [outcome |-> "panic", setting |-> self]
    ELSE LET d == end_time - self.start
             at_break == SearchReps(self, d, 1, None)
         IN IF at_break = 0
            THEN [outcome |-> "searching", setting |-> self]
            ELSE [outcome |-> "ok",
                  setting |-> [self EXCEPT !.repetitions = at_break - 1,
                                           !.work_time = f(self, d, at_break - 1)]]

\* pub fn adjust_end_to(&mut self, end_time: DateTime<Utc>): how the call
\* ends, and the setting it leaves
adjust_end_to(self, end_time) ==
    IF ~(end_time > self.start)
    THEN [outcome |-> "panic", setting |-> self]
    ELSE LET d == end_time - self.start
             at_break == SearchReps(self, d, 1, None)
             reps == at_break - 1
         IN IF at_break = 0
            THEN [outcome |-> "searching", setting |-> self]
            ELSE [outcome |-> "ok",
                  setting |-> [self EXCEPT !.repetitions = reps,
                                           !.work_time = f(self, d, reps)]]

----------------------------------------------------------------------------
(* The state machine                                                       *)

\* no Pomodoro has been built yet
NoPomodoro ==
    [sections |-> << >>, start |-> 0, active |-> FALSE, pause_started |-> None]

\* the last call: its name and its arguments
Call(name, args) == [name |-> name, args |-> args]

\* the calls that return nothing
Unit == << >>

\* the settings a session of Spec is built from
Settings ==
    { PomodoroSetting(T0, r, w, b) :
        r \in 0 .. MaxRepetitions, w \in 0 .. MaxDur, b \in 0 .. MaxDur }

\* the argument stop_cmd passes to set_active
ActiveArgs == {FALSE}

Init ==
    /\ setting \in Settings
    /\ pomo = NoPomodoro
    /\ pc = "setting"
    /\ op = Call("from_string", << >>)
    /\ old = NoPomodoro
    /\ ret = Unit

ToPomodoro ==
    /\ pc = "setting"
    /\ pomo' = to_pomodoro(setting)
    /\ pc' = "session"
    /\ op' = Call("to_pomodoro", << >>)
    /\ old' = pomo
    /\ ret' = Unit
    /\ UNCHANGED setting

SetActive(a) ==
    /\ pc = "session"
    /\ pomo' = set_active(pomo, a)
    /\ op' = Call("set_active", << a >>)
    /\ old' = pomo
    /\ ret' = Unit
    /\ UNCHANGED <<setting, pc>>

SetPause(t) ==
    /\ pc = "session"
    /\ pomo' = set_pause(pomo, t)
    /\ op' = Call("set_pause", << t >>)
    /\ old' = pomo
    /\ ret' = Unit
    /\ UNCHANGED <<setting, pc>>

SetUnpause(t) ==
    /\ pc = "session"
    /\ Len(pomo.sections) <= MaxSections
    /\ IF UnpauseAssertion(pomo)
       THEN pomo' = set_unpause(pomo, t) /\ ret' = Unit
       ELSE pomo' = pomo /\ ret' = << "panic" >>
    /\ op' = Call("set_unpause", << t >>)
    /\ old' = pomo
    /\ UNCHANGED <<setting, pc>>

State(t) ==
    /\ pc = "session"
    /\ ret' = << current_section(pomo, t), state(pomo, t) >>
    /\ op' = Call("state", << t >>)
    /\ old' = pomo
    /\ UNCHANGED <<setting, pomo, pc>>

Next ==
    \/ ToPomodoro
    \/ \E a \in ActiveArgs : SetActive(a)
    \/ \E t \in Times : SetPause(t)
    \/ \E t \in Times : SetUnpause(t)
    \/ \E t \in Times : State(t)

Spec == Init /\ [][Next]_vars

----------------------------------------------------------------------------
(* The start command: a setting is parsed, fitted to an end time when       *)
(* --until is given, and built; the session is then paused, resumed, asked  *)

\* the session-spec strings given to start
SpecStrings ==
    { << "4", "p", "4", "5", "b", "1", "5" >>,
      << "2", "p", "1", "0", "b", "5" >>,
      << >>,
      << "p", "2", "5" >>,
      << "3" >>,
      << "1", "p", "0", "b", "0" >>,
      << "b", "5", "p", "3", "0", "b" >>,
      << "p", "1", "b", "6", "0" >> }

\* the end times given with --until
UntilTimes ==
    { T0 + x : x \in { 0 - Minutes(1), 0, 1, NanosPerSec + 1,
                       Minutes(30), Minutes(180) } }
        \cup { T0 + Minutes(180) + k : k \in 1 .. 5 }

\* the instants the session of the start command is paused, resumed and asked at
ScenarioTimes == { T0 + Minutes(m) : m \in {0, 3, 8, 12, 30, 100} }

InitStart ==
    /\ \E s \in SpecStrings :
           /\ setting = from_string(s, T0)
           /\ op = Call("from_string", << s >>)
    /\ pomo = NoPomodoro
    /\ pc = "setting"
    /\ old = NoPomodoro
    /\ ret = Unit

AdjustEndTo(end_time) ==
    /\ pc = "setting"
    /\ op.name = "from_string"
    /\ LET r == adjust_end_to(setting, end_time)
       IN /\ setting' = r.setting
          /\ pc' = IF r.outcome = "ok" THEN "setting" ELSE r.outcome
          /\ ret' = << r.outcome >>
    /\ op' = Call("adjust_end_to", << end_time >>)
    /\ old' = setting
    /\ UNCHANGED pomo

NextStart ==
    \/ \E end_time \in UntilTimes : AdjustEndTo(end_time)
    \/ ToPomodoro
    \/ \E t \in ScenarioTimes : SetPause(t)
    \/ \E t \in ScenarioTimes : SetUnpause(t)
    \/ \E t \in ScenarioTimes : State(t)

SpecStart == InitStart /\ [][NextStart]_vars

----------------------------------------------------------------------------
(* The stored session: the serde attributes of Pomodoro and PomodoroSection *)
(* write start and pause_started as whole-second timestamps and each        *)
(* duration as a whole number of seconds                                    *)

\* DateTime::timestamp, what ts_seconds writes: the whole seconds of an instant
timestamp(t) == t \div NanosPerSec

\* what ts_seconds reads: the instant of a whole-second timestamp
from_timestamp(secs) == secs * NanosPerSec

\* what DurationSeconds<i64> writes: the duration rounded to the nearest
\* second, halves away from zero
duration_to_seconds(d) ==
    LET whole == Abs(d) \div NanosPerSec
        subsec == Abs(d) % NanosPerSec
        rounded == IF 2 * subsec >= NanosPerSec THEN whole + 1 ELSE whole
    IN IF d < 0 THEN 0 - rounded ELSE rounded

\* what DurationSeconds<i64> reads: the duration of a number of seconds
seconds_to_duration(secs) == secs * NanosPerSec

\* #[derive(Serialize)] of Pomodoro
serialize(self) ==
    [sections |-> [i \in 1 .. Len(self.sections) |->
                      [duration |-> duration_to_seconds(self.sections[i].duration),
                       state |-> self.sections[i].state]],
     start |-> timestamp(self.start),
     active |-> self.active,
     pause_started |-> IF self.pause_started = None THEN None
                       ELSE Some(timestamp(self.pause_started[1]))]

\* #[derive(Deserialize)] of Pomodoro
deserialize(stored) ==
    [sections |-> [i \in 1 .. Len(stored.sections) |->
                      PomodoroSection(
                          seconds_to_duration(stored.sections[i].duration),
                          stored.sections[i].state)],
     start |-> from_timestamp(stored.start),
     active |-> stored.active,
     pause_started |-> IF stored.pause_started = None THEN None
                       ELSE Some(from_timestamp(stored.pause_started[1]))]

\* the session is written by one invocation and read by the next
Reload ==
    /\ pc = "session"
    /\ pomo' = deserialize(serialize(pomo))
    /\ op' = Call("reload", << >>)
    /\ old' = pomo
    /\ ret' = Unit
    /\ UNCHANGED <<setting, pc>>

\* the instants a stored session is paused and resumed at
StoreTimes == { T0 + Minutes(3), T0 + Minutes(8) + 1, T0 + Minutes(30) }

NextStore ==
    \/ \E end_time \in UntilTimes : AdjustEndTo(end_time)
    \/ ToPomodoro
    \/ \E t \in StoreTimes : SetPause(t)
    \/ \E t \in StoreTimes : SetUnpause(t)
    \/ Reload

SpecStore == InitStart /\ [][NextStore]_vars

----------------------------------------------------------------------------
(* What the claims speak of                                                *)

\* a session exists
Built == pc = "session"

\* the instant the last call was given
Arg == op.args[1]

\* the sum of all section durations
TotalDuration(self) == SumDurations(self.sections, Len(self.sections))

\* the sections (0-based) the instant p lies strictly inside
SectionsAround(self, p) ==
    { i \in 0 .. Len(self.sections) - 1 :
        /\ SectionStartTime(self, i) < p
        /\ p < SectionStartTime(self, i) + self.sections[i + 1].duration }

\* the first section an active session was paused in, at or after its start;
\* -1 when it was paused in none
PausedSection(self) ==
    IF self.active /\ self.pause_started # None
          /\ self.start <= self.pause_started[1]
          /\ SectionsAround(self, self.pause_started[1]) # {}
    THEN CHOOSE i \in SectionsAround(self, self.pause_started[1]) :
             \A j \in SectionsAround(self, self.pause_started[1]) : i <= j
    ELSE -1

\* the last call was a set_unpause that spliced a section
Spliced ==
    /\ op.name = "set_unpause"
    /\ ret = Unit
    /\ PausedSection(old) >= 0

\* C1: when set_unpause(n) splices section s of a session paused at p, the
\* sum of all section durations grows by exactly n - p, and the durations of
\* the two remainders of section s add up to its original duration.
C1_SpliceConservesDuration ==
    Spliced =>
        LET s == PausedSection(old)
            p == old.pause_started[1]
        IN /\ TotalDuration(pomo) = TotalDuration(old) + (Arg - p)
           /\ Len(pomo.sections) = Len(old.sections) + 2
           /\ pomo.sections[s + 1].duration + pomo.sections[s + 3].duration
                  = old.sections[s + 1].duration

\* a pause of positive length has been spliced into a session of three sections
C1_Witness ==
    /\ Spliced
    /\ Len(old.sections) = 3
    /\ Arg > old.pause_started[1]

\* C2: set_unpause(n) on a session paused at p inside section s (start
\* section_start, kind K, duration D) replaces section s in place by
\* [K p - section_start, Break n - p, K D - (p - section_start)] and keeps
\* every other section and the order.
C2_SpliceReplacesInPlace ==
    Spliced =>
        LET s == PausedSection(old)
            p == old.pause_started[1]
            section_start == SectionStartTime(old, s)
            K == old.sections[s + 1].state
            D == old.sections[s + 1].duration
        IN pomo.sections =
               SubSeq(old.sections, 1, s)
                   \o << PomodoroSection(p - section_start, K),
                         PomodoroSection(Arg - p, "Break"),
                         PomodoroSection(D - (p - section_start), K) >>
                   \o SubSeq(old.sections, s + 2, Len(old.sections))

\* the middle section, a Break, of a session of three sections has been split
C2_Witness ==
    /\ Spliced
    /\ Len(old.sections) = 3
    /\ PausedSection(old) = 1
    /\ Arg # old.pause_started[1]

\* C3: every section of a session built with positive work and break
\* durations has a strictly positive duration, whatever set_pause,
\* set_unpause and set_active calls it has seen.
C3_DurationsPositive ==
    (Built /\ setting.work_time > 0 /\ setting.break_time > 0) =>
        \A k \in 1 .. Len(pomo.sections) : pomo.sections[k].duration > 0

\* every section has a positive duration
WellFormed(self) ==
    \A k \in 1 .. Len(self.sections) : self.sections[k].duration > 0

\* C4: for an active session current_section partitions time: BeforeStart
\* iff the effective instant is before start, Section(i) iff it lies in
\* [start_i, start_i + duration_i), AferEnd iff it is at or past the end.
\* (Stated of the sessions whose sections all have positive durations.)
C4_SectionsPartitionTime ==
    (Built /\ pomo.active /\ WellFormed(pomo)) =>
        \A t \in Times :
            LET e == EffectiveTime(pomo, t)
                cs == current_section(pomo, t)
            IN /\ (cs = BeforeStart) <=> (e < pomo.start)
               /\ \A i \in 0 .. Len(pomo.sections) - 1 :
                      (cs = Section(i)) <=>
                          /\ SectionStartTime(pomo, i) <= e
                          /\ e < SectionStartTime(pomo, i)
                                     + pomo.sections[i + 1].duration
               /\ (cs = AferEnd) <=> (e >= end(pomo))

\* the session with its pause marker taken away
Unpaused(self) == [self EXCEPT !.pause_started = None]

\* C5: while a session is paused at p, current_section(now) and state(now)
\* are the same for every now: what the session without the marker reports
\* at p, with pause = TRUE.
C5_PausedQueriesFrozen ==
    (Built /\ pomo.pause_started # None) =>
        LET p == pomo.pause_started[1]
            section == current_section(Unpaused(pomo), p)
            frozen == [state(Unpaused(pomo), p) EXCEPT !.pause = TRUE]
        IN /\ \A now \in Times :
                  /\ current_section(pomo, now) = section
                  /\ state(pomo, now) = frozen
           /\ op.name = "state" => ret = << section, frozen >>

\* a session paused inside a section has been queried at another instant
C5_Witness ==
    /\ op.name = "state"
    /\ pomo.pause_started # None
    /\ Arg # pomo.pause_started[1]
    /\ ret[1].tag = "Section"
    /\ ret[2].duration > 0

\* what the state table gives for section i at the effective instant e
SectionRow(self, i, e) ==
    [current_state |-> self.sections[i + 1].state,
     next_state |-> IF i + 2 <= Len(self.sections)
                    THEN self.sections[i + 2].state ELSE "Done",
     duration |-> (SectionStartTime(self, i) + self.sections[i + 1].duration) - e,
     completed_repetitions |->
         Cardinality({ k \in 1 .. i + 1 : self.sections[k].state = "Work" })]

\* C6: when current_section resolves to Section(i), state reports the kind
\* of section i, the kind of section i + 1 (Done after the last), the time
\* left to the end of section i, and the number of Work sections among
\* sections 0 .. i.
C6_StateInSection ==
    Built =>
        /\ \A t \in Times :
               LET cs == current_section(pomo, t)
                   st == state(pomo, t)
               IN cs.tag = "Section" =>
                      LET row == SectionRow(pomo, cs.i, EffectiveTime(pomo, t))
                      IN /\ st.current_state = row.current_state
                         /\ st.next_state = row.next_state
                         /\ st.duration = row.duration
                         /\ st.completed_repetitions = row.completed_repetitions
        /\ (op.name = "state" /\ ret[1].tag = "Section") =>
               LET row == SectionRow(pomo, ret[1].i, EffectiveTime(pomo, Arg))
               IN /\ ret[2].current_state = row.current_state
                  /\ ret[2].next_state = row.next_state
                  /\ ret[2].duration = row.duration
                  /\ ret[2].completed_repetitions = row.completed_repetitions

\* state has been asked inside the second Work section of a session
C6_Witness ==
    /\ op.name = "state"
    /\ ret[1] = Section(2)
    /\ ret[2].current_state = "Work"
    /\ ret[2].completed_repetitions = 2

\* C7: the total_repetitions that state reports for an active session is
\* the number of repetitions the session was built with, whatever
\* set_pause and set_unpause calls it has seen.
\* (Stated of the sessions whose sections all have positive durations.)
C7_TotalRepetitionsConstant ==
    (Built /\ pomo.active /\ WellFormed(pomo)) =>
        \A t \in Times : state(pomo, t).total_repetitions = setting.repetitions

\* the session of the scenario: 2p10b5 started at T0, never paused
ScenarioSession ==
    [sections |-> << PomodoroSection(Minutes(10), "Work"),
                     PomodoroSection(Minutes(5), "Break"),
                     PomodoroSection(Minutes(10), "Work") >>,
     start |-> T0,
     active |-> TRUE,
     pause_started |-> None]

\* what state reports of the scenario's session
Reports(st, current, remaining, completed) ==
    /\ st.current_state = current
    /\ st.duration = remaining
    /\ st.completed_repetitions = completed
    /\ st.total_repetitions = 2
    /\ ~st.pause

\* the scenario, with completed_at_3m the completed repetitions at T0 + 3m
Scenario(completed_at_3m) ==
    /\ (op.name = "to_pomodoro"
          /\ old = NoPomodoro
          /\ setting = from_string(<< "2", "p", "1", "0", "b", "5" >>, T0))
           => pomo = ScenarioSession
    /\ (Built /\ pomo = ScenarioSession) =>
           /\ Reports(state(pomo, T0 + Minutes(3)),
                      "Work", Minutes(7), completed_at_3m)
           /\ Reports(state(pomo, T0 + Minutes(12)), "Break", Minutes(3), 1)
           /\ Reports(state(pomo, T0 + Minutes(30)), "Done", 0, 2)
    /\ (op.name = "state" /\ pomo = ScenarioSession) =>
           /\ Arg = T0 + Minutes(3) =>
                  Reports(ret[2], "Work", Minutes(7), completed_at_3m)
           /\ Arg = T0 + Minutes(12) =>
                  Reports(ret[2], "Break", Minutes(3), 1)
           /\ Arg = T0 + Minutes(30) => Reports(ret[2], "Done", 0, 2)

\* C8 as claimed: for 2p10b5 started at T0, state(T0 + 3m) reports Work, 7m
\* left and 0 completed; state(T0 + 12m) Break, 3m left and 1 completed;
\* state(T0 + 30m) Done with 2 of 2 completed.
C8_ScenarioAsClaimed == Scenario(0)

\* C8: for 2p10b5 started at T0, state(T0 + 3m) reports Work, 7m left and 1
\* completed (the Work section under way is counted); state(T0 + 12m) Break,
\* 3m left and 1 completed; state(T0 + 30m) Done with 2 of 2 completed.
C8_Scenario == Scenario(1)

\* the scenario's session has been asked its state at T0 + 3m
C8_Witness ==
    /\ op.name = "state"
    /\ pomo = ScenarioSession
    /\ Arg = T0 + Minutes(3)
    /\ ret[2].current_state = "Work"

\* C9: for r >= 1 repetitions to_pomodoro gives 2r - 1 sections, Work of
\* work_time at the odd places and Break of break_time at the even ones,
\* with active = TRUE and no pause marker.
C9_BuildAlternates ==
    (op.name = "to_pomodoro" /\ setting.repetitions >= 1) =>
        /\ Len(pomo.sections) = 2 * setting.repetitions - 1
        /\ \A k \in 1 .. Len(pomo.sections) :
               pomo.sections[k] =
                   IF k % 2 = 1
                   THEN PomodoroSection(setting.work_time, "Work")
                   ELSE PomodoroSection(setting.break_time, "Break")
        /\ pomo.sections[1].state = "Work"
        /\ pomo.sections[Len(pomo.sections)].state = "Work"
        /\ pomo.start = setting.start
        /\ pomo.active
        /\ pomo.pause_started = None

\* a session of two repetitions with different work and break durations has
\* been built
C9_Witness ==
    /\ op.name = "to_pomodoro"
    /\ setting.repetitions = 2
    /\ setting.work_time # setting.break_time
    /\ Len(pomo.sections) = 3

\* the last call was an adjust_end_to that stored a fit
Fitted == op.name = "adjust_end_to" /\ ret = << "ok" >>

\* reps * work + (reps - 1) * break_duration - (target_end - start) of the
\* fit stored
FitError ==
    setting.repetitions * setting.work_time
        + (setting.repetitions - 1) * setting.break_time
        - (Arg - setting.start)

\* the setting of 4p45b15 has been fitted to start + 3h
FittedThreeHours ==
    /\ Fitted
    /\ old = PomodoroSetting(T0, 4, Minutes(45), Minutes(15))
    /\ Arg = T0 + Minutes(180)

\* C10 as claimed: the fit stored by adjust_end_to is within one tick of
\* target_end - start, for every setting and every target_end after start.
C10_FitWithinOneUnit == Fitted => Abs(FitError) <= 1

\* C10: the fit stored by adjust_end_to is within 2 * (reps - 1) ticks of
\* target_end - start (each of the divisions by reps truncates), and for
\* work = 45m, break = 15m, reps = 4 and target_end = start + 3h it is
\* within one tick.
C10_FitWithinRounding ==
    /\ Fitted => Abs(FitError) <= 2 * (setting.repetitions - 1)
    /\ FittedThreeHours => Abs(FitError) <= 1

\* 4p45b15 has been fitted to start + 3h: three repetitions of 50 minutes
C10_Witness ==
    /\ FittedThreeHours
    /\ setting.repetitions = 3
    /\ setting.work_time = Minutes(50)

\* C11: adjust_end_to called with target_end <= start fails (the assertion
\* panics) and leaves repetitions, work_time, break_time and start as they
\* were.
C11_InvalidRangeFails ==
    (op.name = "adjust_end_to" /\ Arg <= old.start) =>
        /\ ret = << "panic" >>
        /\ pc = "panic"
        /\ setting.repetitions = old.repetitions
        /\ setting.work_time = old.work_time
        /\ setting.break_time = old.break_time
        /\ setting.start = old.start

\* adjust_end_to has been called with target_end = start
C11_Witness ==
    /\ op.name = "adjust_end_to"
    /\ Arg = old.start
    /\ ret = << "panic" >>

\* the instant p is the start of a section of the session
AtSectionStart(self, p) ==
    \E i \in 0 .. Len(self.sections) - 1 : SectionStartTime(self, i) = p

\* C12: set_unpause signals a failure, and does not complete silently, when
\* the pause marker is exactly a section's start, or when the resume instant
\* is not after the pause marker of a pause inside a section.
\* (Stated of the active sessions whose sections all have positive durations.)
C12_UnpauseSignalsFailure ==
    (/\ op.name = "set_unpause"
     /\ old.active
     /\ old.pause_started # None
     /\ WellFormed(old)
     /\ \/ AtSectionStart(old, old.pause_started[1])
        \/ PausedSection(old) >= 0 /\ Arg <= old.pause_started[1])
        => ret # Unit

\* C13: set_unpause leaves the session as it is when there is no pause
\* marker; with a marker it ends with the marker cleared, and when the
\* paused instant resolves to no section (before start, at or after the end,
\* inactive session) the sections, start and active flag are as before.
C13_UnpauseFrame ==
    op.name = "set_unpause" =>
        /\ old.pause_started = None => pomo = old
        /\ old.pause_started # None =>
               /\ pomo.pause_started = None
               /\ PausedSection(old) = -1 =>
                      /\ pomo.sections = old.sections
                      /\ pomo.start = old.start
                      /\ pomo.active = old.active

\* an active session paused before its start has been resumed
C13_Witness ==
    /\ op.name = "set_unpause"
    /\ old.active
    /\ old.pause_started # None
    /\ old.pause_started[1] < old.start
    /\ Len(old.sections) > 0
    /\ pomo.pause_started = None

\* C14: after a splice of section s, every instant t before the start of
\* section s is reported as before the pause: current_section, current
\* state, next state, remaining duration and completed repetitions at t are
\* those of the session before the pause.
\* (Stated of the sessions whose sections all have positive durations, resumed
\* after the pause instant.)
C14_EarlierInstantsKeepMeaning ==
    (Spliced /\ WellFormed(old) /\ Arg > old.pause_started[1]) =>
        LET s == PausedSection(old)
            before == Unpaused(old)
        IN \A t \in Times \cup ScenarioTimes :
               t < SectionStartTime(old, s) =>
                   /\ current_section(pomo, t) = current_section(before, t)
                   /\ state(pomo, t).current_state
                          = state(before, t).current_state
                   /\ state(pomo, t).next_state = state(before, t).next_state
                   /\ state(pomo, t).duration = state(before, t).duration
                   /\ state(pomo, t).completed_repetitions
                          = state(before, t).completed_repetitions

\* C15: after a pause at p and a resume at n that splice section s, every
\* instant t with p <= t < end of the original section s is shifted by n - p:
\* the current state and remaining duration at t + (n - p) after the splice
\* are those at t before the pause.
\* (Stated of the sessions whose sections all have positive durations, resumed
\* after the pause instant.)
C15_LaterInstantsShifted ==
    (Spliced /\ WellFormed(old) /\ Arg > old.pause_started[1]) =>
        LET s == PausedSection(old)
            p == old.pause_started[1]
            before == Unpaused(old)
            section_end == SectionStartTime(old, s)
                               + old.sections[s + 1].duration
        IN \A t \in Times :
               (p <= t /\ t < section_end) =>
                   /\ state(pomo, t + (Arg - p)).current_state
                          = state(before, t).current_state
                   /\ state(pomo, t + (Arg - p)).duration
                          = state(before, t).duration

\* C16: once set_active(false) has been applied, every later set_pause,
\* set_unpause and set_active(false) leaves the session inactive and its
\* sections as they were, and state(t) reports Done, Done, remaining 0,
\* completed 0 and total 0 at every instant t.
C16_InactiveStays ==
    /\ (Built /\ ~old.active /\ op.name # "to_pomodoro") =>
           /\ ~pomo.active
           /\ pomo.sections = old.sections
    /\ (Built /\ ~pomo.active) =>
           \A t \in Times :
               /\ current_section(pomo, t) = Inactive
               /\ state(pomo, t) =
                      CurrentPomoState("Done", "Done", 0, 0, 0,
                                       pomo.pause_started # None)

\* a stopped session, paused at an instant inside one of its sections, has
\* been resumed
C16_Witness ==
    /\ op.name = "set_unpause"
    /\ ~old.active
    /\ old.pause_started # None
    /\ SectionsAround(old, old.pause_started[1]) # {}
    /\ Arg > old.pause_started[1]
    /\ ~pomo.active

\* C17: set_active(false) changes the active flag only, leaving the pause
\* marker, the start and the sections, and applying it a second time gives
\* the same session and the same state(t) at every instant t.
C17_StopIdempotent ==
    op.name = "set_active" =>
        /\ pomo = [old EXCEPT !.active = FALSE]
        /\ pomo.pause_started = old.pause_started
        /\ pomo.start = old.start
        /\ pomo.sections = old.sections
        /\ set_active(pomo, FALSE) = pomo
        /\ \A t \in Times :
               state(set_active(pomo, FALSE), t) = state(pomo, t)

\* a paused session with sections has been stopped
C17_Witness ==
    /\ op.name = "set_active"
    /\ old.active
    /\ old.pause_started # None
    /\ Len(old.sections) > 0
    /\ ~pomo.active

\* C18: a session that was built, paused and resumed answers current_section
\* and state at every instant as before, after it has been serialized (start
\* and pause marker as whole-second timestamps, durations as whole seconds)
\* and deserialized.
C18_RoundTripKeepsQueries ==
    op.name = "reload" =>
        \A t \in ScenarioTimes :
            /\ current_section(pomo, t) = current_section(old, t)
            /\ state(pomo, t) = state(old, t)

\* C19: for every target_end after start and every parsed work_time >= 0 and
\* break_time >= 0, the search of adjust_end_to over r = 1, 2, 3, ... ends,
\* and the repetitions it stores are >= 1 and are the last r before
\* |w(r) - w_original| first increases.
C19_SearchTerminates ==
    (/\ op.name = "adjust_end_to"
     /\ Arg > old.start
     /\ old.work_time >= 0
     /\ old.break_time >= 0) =>
        LET d == Arg - old.start
            reps == setting.repetitions
        IN /\ ret = << "ok" >>
           /\ reps >= 1
           /\ WorkDelta(old, d, reps + 1) > WorkDelta(old, d, reps)
           /\ \A r \in 1 .. reps - 1 :
                  WorkDelta(old, d, r + 1) <= WorkDelta(old, d, r)

\* C20: for every target_end after start, every positive work_time and every
\* break_time >= 0, the work_time adjust_end_to stores is positive, and so is
\* the duration of every section to_pomodoro builds from it.
C20_FittedWorkPositive ==
    (/\ Fitted
     /\ Arg > old.start
     /\ old.work_time > 0
     /\ old.break_time >= 0) =>
        /\ setting.work_time > 0
        /\ WellFormed(to_pomodoro(setting))

\* C21: the assertion of set_unpause never fails: in every reachable state,
\* when current_section resolves the pause marker to Section(s) the marker is
\* strictly after the start of section s and strictly before its end, and no
\* set_unpause call panics.
C21_UnpauseAssertionHolds ==
    /\ (Built /\ pomo.pause_started # None) =>
           LET p == pomo.pause_started[1]
               sec == current_section(pomo, p)
           IN /\ UnpauseAssertion(pomo)
              /\ sec.tag = "Section" =>
                     /\ SectionStartTime(pomo, sec.i) < p
                     /\ p < SectionStartTime(pomo, sec.i)
                                + pomo.sections[sec.i + 1].duration
    /\ op.name = "set_unpause" => ret # << "panic" >>

\* the last section of a session with a section of no duration has been split
C21_Witness ==
    /\ Spliced
    /\ ~WellFormed(old)
    /\ PausedSection(old) = 2
    /\ Arg > old.pause_started[1]

\* C22: for an active session with no pause marker, Done is absorbing in
\* time and progress is monotone: when state(t) reports Done so does
\* state(t2) for every t2 >= t, and the completed_repetitions state reports
\* do not decrease as the instant increases.
\* (Stated of the sessions whose sections all have positive durations.)
C22_DoneAbsorbing ==
    (Built /\ pomo.active /\ pomo.pause_started = None /\ WellFormed(pomo)) =>
        \A t \in Times : \A t2 \in Times :
            t <= t2 =>
                /\ state(pomo, t).current_state = "Done"
                       => state(pomo, t2).current_state = "Done"
                /\ state(pomo, t).completed_repetitions
                       <= state(pomo, t2).completed_repetitions

====
